---- MODULE Spec2Model ----
(***************************************************************************)
(* RandomCopyPaste (keras_cv/layers/preprocessing_3d/waymo/                *)
(* random_copy_paste.py): the 3D copy-paste augmentation layer.            *)
(*                                                                         *)
(* Tensors are modelled by their contents: a [frames, slots, features]     *)
(* tensor is a function from the frame index to a sequence of records, one *)
(* record per slot and one field per feature.  object_point_clouds, of     *)
(* shape [frames, objects, points, features], is a function from the frame *)
(* index to a sequence (objects) of sequences (points) of records.         *)
(* Sequences are 1-based where the tensors are 0-based.                    *)
(*                                                                         *)
(* Boxes are CENTER_XYZ_DXDYDZ_PHI with a class feature; every modelled    *)
(* box is axis aligned (phi = 0).  IoU values are exact fractions          *)
(* <<numerator, denominator>>.                                             *)
(***************************************************************************)
EXTENDS Integers, Sequences, FiniteSets

VARIABLES
    label_index,                \* self._label_index (0 stands for None)
    min_paste_bounding_boxes,   \* self._min_paste_bounding_boxes
    max_paste_bounding_boxes,   \* self._max_paste_bounding_boxes
    point_clouds,               \* inputs[POINT_CLOUDS]
    bounding_boxes,             \* inputs[BOUNDING_BOXES]
    object_point_clouds,        \* inputs[OBJECT_POINT_CLOUDS]
    object_bounding_boxes,      \* inputs[OBJECT_BOUNDING_BOXES]
    num_paste_bounding_boxes,   \* the draw of get_random_transformation
    shuffle_index,              \* the shuffle of get_random_transformation
    transformation,             \* what get_random_transformation returned
    out_point_clouds,           \* result[POINT_CLOUDS]
    out_bounding_boxes,         \* result[BOUNDING_BOXES]
    pc                          \* position inside _augment

vars == << label_index, min_paste_bounding_boxes, max_paste_bounding_boxes,
           point_clouds, bounding_boxes, object_point_clouds,
           object_bounding_boxes, num_paste_bounding_boxes, shuffle_index,
           transformation, out_point_clouds, out_bounding_boxes, pc >>

(***************************************************************************)
(* Bounds of the model.                                                    *)
(***************************************************************************)
NumFrames == 2
NumPoints == 2
NumBoxes == 2
NumObjects == 2
MaxPaste == 2

Frames == 0 .. (NumFrames - 1)

(***************************************************************************)
(* Arithmetic helpers.                                                     *)
(***************************************************************************)
Min(a, b) == IF a <= b THEN a ELSE b

Max(a, b) == IF a >= b THEN a ELSE b

RECURSIVE Gcd(_, _)
Gcd(a, b) == IF b = 0 THEN a ELSE Gcd(b, a % b)

RatZero == << 0, 1 >>

RatNorm(p) ==
    LET g == Gcd(p[1], p[2]) IN IF g = 0 THEN RatZero ELSE << p[1] \div g, p[2] \div g >>

RatAdd(p, q) == RatNorm(<< p[1] * q[2] + q[1] * p[2], p[2] * q[2] >>)

(***************************************************************************)
(* Tensor helpers: tf.boolean_mask, slicing [:n], tf.gather, to_tensor.    *)
(***************************************************************************)
RECURSIVE BooleanMaskTo(_, _, _)
BooleanMaskTo(tensor, mask, n) ==
    IF n = 0 THEN << >>
    ELSE BooleanMaskTo(tensor, mask, n - 1)
         \o (IF mask[n] THEN << tensor[n] >> ELSE << >>)

BooleanMask(tensor, mask) == BooleanMaskTo(tensor, mask, Len(tensor))

SliceTo(tensor, n) == SubSeq(tensor, 1, Min(n, Len(tensor)))

Gather(tensor, indices) == [i \in 1 .. Len(indices) |-> tensor[indices[i]]]

RECURSIVE FlattenTo(_, _)
FlattenTo(rows, n) == IF n = 0 THEN << >> ELSE FlattenTo(rows, n - 1) \o rows[n]

Flatten(rows) == FlattenTo(rows, Len(rows))

ToTensorNoTruncate(row, n, zero) ==
    row \o [i \in 1 .. (n - Len(row)) |-> zero]

ToTensor(row, n, zero) ==
    [i \in 1 .. n |-> IF i <= Len(row) THEN row[i] ELSE zero]

(***************************************************************************)
(* Geometry: keras_cv.ops.iou_3d and keras_cv.point_cloud                  *)
(* .is_within_any_box3d, for axis-aligned boxes.  Coordinates are doubled  *)
(* so that the half extents dx/2, dy/2, dz/2 stay integers.                *)
(***************************************************************************)
AxisOverlap(c1, d1, c2, d2) ==
    Max(0, Min(2 * c1 + d1, 2 * c2 + d2) - Max(2 * c1 - d1, 2 * c2 - d2))

Intersection3d(a, b) ==
    AxisOverlap(a.x, a.dx, b.x, b.dx) * AxisOverlap(a.y, a.dy, b.y, b.dy)
        * AxisOverlap(a.z, a.dz, b.z, b.dz)

Volume3d(a) == (2 * a.dx) * (2 * a.dy) * (2 * a.dz)

Iou3d(a, b) ==
    LET inter == Intersection3d(a, b)
        union == Volume3d(a) + Volume3d(b) - inter
    IN  IF union = 0 THEN RatZero ELSE RatNorm(<< inter, union >>)

Iou3dMatrix(boxes) ==
    [i \in 1 .. Len(boxes) |-> [j \in 1 .. Len(boxes) |-> Iou3d(boxes[i], boxes[j])]]

AxisWithin(p, c, d) == (2 * c - d <= 2 * p) /\ (2 * p <= 2 * c + d)

IsWithinBox3d(p, b) ==
    AxisWithin(p.x, b.x, b.dx) /\ AxisWithin(p.y, b.y, b.dy) /\ AxisWithin(p.z, b.z, b.dz)

IsWithinAnyBox3d(points, boxes) ==
    [i \in 1 .. Len(points) |->
        \E j \in 1 .. Len(boxes) : IsWithinBox3d(points[i], boxes[j])]

(***************************************************************************)
(* The inputs of the model.  A scene box is a labelled box around x = 0 or *)
(* an all-zero padding slot.  A background point is a labelled point, an   *)
(* unlabelled point (class 0) or a labelled point far from every object.   *)
(* An object is a box with its points: ObjectA overlaps the scene box in   *)
(* frame 0, ObjectB overlaps nothing but a copy of itself, ObjectPad is an *)
(* all-zero padding object.  Objects move by -2 in x per frame, the scene  *)
(* is static.                                                              *)
(***************************************************************************)
Box(x, dx, class) ==
    [x |-> x, y |-> 0, z |-> 0, dx |-> dx, dy |-> dx \div 2, dz |-> dx \div 2,
     phi |-> 0, class |-> class]

Point(x, class) == [x |-> x, y |-> 0, z |-> 0, class |-> class]

ZeroBox == Box(0, 0, 0)

ZeroPoint == Point(0, 0)

SceneBoxKinds == { Box(0, 4, 1), ZeroBox }

PointKinds == { Point(3, 1), Point(3, 0), Point(10, 1) }

ObjectA == [box |-> Box(2, 4, 1), points |-> << Point(2, 1), Point(3, 1) >>]

ObjectB == [box |-> Box(6, 4, 2), points |-> << ZeroPoint, Point(6, 2) >>]

ObjectPad == [box |-> ZeroBox, points |-> << ZeroPoint, ZeroPoint >>]

ObjectKinds == { ObjectA, ObjectB, ObjectPad }

LabelIndices == { 0, 2 }

MoveTo(entry, f) ==
    IF entry.class > 0 THEN [entry EXCEPT !.x = entry.x - 2 * f] ELSE entry

SceneTensor(row) == [f \in Frames |-> row]

ObjectBoxTensor(objects) ==
    [f \in Frames |-> [i \in 1 .. Len(objects) |-> MoveTo(objects[i].box, f)]]

ObjectPointTensor(objects) ==
    [f \in Frames |->
        [i \in 1 .. Len(objects) |->
            [k \in 1 .. Len(objects[i].points) |-> MoveTo(objects[i].points[k], f)]]]

NoTransformation ==
    [OBJECT_POINT_CLOUDS |-> [f \in Frames |-> << >>],
     OBJECT_BOUNDING_BOXES |-> [f \in Frames |-> << >>]]

NoOutput == [f \in Frames |-> << >>]

(* __init__: the layer's arguments pass the constructor's checks. *)
ValidArguments(label, minPaste, maxPaste) ==
    /\ ~(label # 0 /\ label < 0)
    /\ ~(minPaste < 0)
    /\ ~(maxPaste < 0)
    /\ ~(maxPaste < minPaste)

InitCommon ==
    /\ ValidArguments(label_index, min_paste_bounding_boxes, max_paste_bounding_boxes)
    /\ \E objects \in [1 .. NumObjects -> ObjectKinds] :
          /\ object_bounding_boxes = ObjectBoxTensor(objects)
          /\ object_point_clouds = ObjectPointTensor(objects)
    /\ \E row \in [1 .. NumBoxes -> SceneBoxKinds] : bounding_boxes = SceneTensor(row)
    /\ num_paste_bounding_boxes = 0
    /\ shuffle_index = << >>
    /\ transformation = NoTransformation
    /\ out_point_clouds = NoOutput
    /\ out_bounding_boxes = NoOutput
    /\ pc = "start"

(* Every layer configuration, over a background of labelled points. *)
Init ==
    /\ label_index \in LabelIndices
    /\ min_paste_bounding_boxes \in 0 .. MaxPaste
    /\ max_paste_bounding_boxes \in 0 .. MaxPaste
    /\ point_clouds = SceneTensor([i \in 1 .. NumPoints |-> Point(3, 1)])
    /\ InitCommon

(* Every background point cloud; the layer asks for MaxPaste boxes of any *)
(* class.                                                                 *)
InitAugment ==
    /\ label_index = 0
    /\ min_paste_bounding_boxes = MaxPaste
    /\ max_paste_bounding_boxes = MaxPaste
    /\ \E row \in [1 .. NumPoints -> PointKinds] : point_clouds = SceneTensor(row)
    /\ InitCommon

(***************************************************************************)
(* get_random_transformation                                               *)
(***************************************************************************)
(* random.uniform((), minval, maxval) cast to int32: a real of             *)
(* [minval, maxval), truncated; minval itself when the interval is empty.  *)
UniformInt(minval, maxval) ==
    IF minval < maxval THEN minval .. (maxval - 1) ELSE { minval }

(* tf.random.shuffle(tf.range(n)): any order of the n indices. *)
Shuffles(n) ==
    { p \in [1 .. n -> 1 .. n] : \A i, j \in 1 .. n : i # j => p[i] # p[j] }

MaskAxis1(tensor, mask) == [f \in DOMAIN tensor |-> BooleanMask(tensor[f], mask)]

GatherAxis1(tensor, indices) == [f \in DOMAIN tensor |-> Gather(tensor[f], indices)]

NoSliceAxis1(tensor, n) == tensor

SliceAxis1(tensor, n) == [f \in DOMAIN tensor |-> SliceTo(tensor[f], n)]

(* if self._label_index: object_mask = (class of frame 0 == label_index) *)
ObjectMask(boxes) ==
    [i \in 1 .. Len(boxes[0]) |->
        IF label_index # 0 THEN boxes[0][i].class = label_index ELSE TRUE]

(* tf.linalg.band_part(iou, -1, 0): the lower triangle, diagonal included. *)
BandPartUpper(iou) ==
    [i \in DOMAIN iou |-> [j \in DOMAIN iou[i] |-> IF j >= i THEN iou[i][j] ELSE RatZero]]

BandPart(iou) ==
    [i \in DOMAIN iou |-> [j \in DOMAIN iou[i] |-> IF j <= i THEN iou[i][j] ELSE RatZero]]

RECURSIVE ReduceSumTo(_, _)
ReduceSumTo(row, n) ==
    IF n = 0 THEN RatZero ELSE RatAdd(ReduceSumTo(row, n - 1), row[n])

ReduceSum(row) == ReduceSumTo(row, Len(row))

(* iou_sum <= 1, for the rows of the candidate boxes *)
NonOverlappingMask(existing, candidates) ==
    LET all_bounding_boxes == existing \o candidates
        iou == BandPart(Iou3dMatrix(all_bounding_boxes))
        num_existing_bounding_boxes == Len(existing)
        iou_sum == [i \in 1 .. Len(candidates) |->
                       ReduceSum(iou[num_existing_bounding_boxes + i])]
    IN  [i \in 1 .. Len(candidates) |-> iou_sum[i][1] <= iou_sum[i][2]]

(* The candidates loaded for the overlap check: label mask, shuffle, and  *)
(* the first min(5 * num_paste_bounding_boxes, number of objects).        *)
LoadedObjects(tensor, n, shuffle) ==
    LET masked == MaskAxis1(tensor, ObjectMask(object_bounding_boxes))
        shuffled == GatherAxis1(masked, shuffle)
        num_compare_bounding_boxes == Min(n * 5, Len(shuffled[0]))
    IN  SliceAxis1(shuffled, num_compare_bounding_boxes)

NumMaskedObjects ==
    Len(BooleanMask(object_bounding_boxes[0], ObjectMask(object_bounding_boxes)))

DrawFromZero(minval, maxval) == UniformInt(0, maxval)

DrawNumPaste(minval, maxval) == UniformInt(minval, maxval)

GetRandomTransformation ==
    /\ pc = "start"
    /\ \E n \in DrawNumPaste(min_paste_bounding_boxes, max_paste_bounding_boxes) :
       \E shuffle \in Shuffles(NumMaskedObjects) :
       \E loaded_point_clouds \in { LoadedObjects(object_point_clouds, n, shuffle) } :
       \E loaded_bounding_boxes \in { LoadedObjects(object_bounding_boxes, n, shuffle) } :
       \E non_overlapping_mask \in
              { NonOverlappingMask(bounding_boxes[0], loaded_bounding_boxes[0]) } :
          /\ num_paste_bounding_boxes' = n
          /\ shuffle_index' = shuffle
          /\ transformation' =
                [OBJECT_POINT_CLOUDS |->
                     SliceAxis1(MaskAxis1(loaded_point_clouds, non_overlapping_mask), n),
                 OBJECT_BOUNDING_BOXES |->
                     SliceAxis1(MaskAxis1(loaded_bounding_boxes, non_overlapping_mask), n)]
    /\ pc' = "transformed"
    /\ UNCHANGED << label_index, min_paste_bounding_boxes, max_paste_bounding_boxes,
                    point_clouds, bounding_boxes, object_point_clouds,
                    object_bounding_boxes, out_point_clouds, out_bounding_boxes >>

(***************************************************************************)
(* augment_point_clouds_bounding_boxes, frame by frame                     *)
(***************************************************************************)
ClassGreaterZero(tensor) == [i \in 1 .. Len(tensor) |-> tensor[i].class > 0]

ExistingPointCloudsMaskNoBoxes(f) == ClassGreaterZero(point_clouds[f])

ExistingPointCloudsMask(f) ==
    LET points_in_paste_bounding_boxes ==
            IsWithinAnyBox3d(point_clouds[f], transformation.OBJECT_BOUNDING_BOXES[f])
    IN  [i \in 1 .. Len(point_clouds[f]) |->
            ~points_in_paste_bounding_boxes[i] /\ point_clouds[f][i].class > 0]

ExistingPointClouds(f) == BooleanMask(point_clouds[f], ExistingPointCloudsMask(f))

PastePointClouds(f) ==
    LET flat == Flatten(transformation.OBJECT_POINT_CLOUDS[f])
    IN  BooleanMask(flat, ClassGreaterZero(flat))

ExistingBoundingBoxes(f) ==
    BooleanMask(bounding_boxes[f], ClassGreaterZero(bounding_boxes[f]))

PasteBoundingBoxes(f) ==
    BooleanMask(transformation.OBJECT_BOUNDING_BOXES[f],
                ClassGreaterZero(transformation.OBJECT_BOUNDING_BOXES[f]))

ConcatExistingFirst(paste, existing) == existing \o paste

ConcatFrame(paste, existing) == paste \o existing

AugmentPointCloudsBoundingBoxes ==
    /\ pc = "transformed"
    /\ out_point_clouds' =
          [f \in Frames |->
              ToTensor(ConcatFrame(PastePointClouds(f), ExistingPointClouds(f)),
                       Len(point_clouds[f]), ZeroPoint)]
    /\ out_bounding_boxes' =
          [f \in Frames |->
              ToTensor(ConcatFrame(PasteBoundingBoxes(f), ExistingBoundingBoxes(f)),
                       Len(bounding_boxes[f]), ZeroBox)]
    /\ pc' = "done"
    /\ UNCHANGED << label_index, min_paste_bounding_boxes, max_paste_bounding_boxes,
                    point_clouds, bounding_boxes, object_point_clouds,
                    object_bounding_boxes, num_paste_bounding_boxes, shuffle_index,
                    transformation >>

Next == GetRandomTransformation \/ AugmentPointCloudsBoundingBoxes

Spec == Init /\ [][Next]_vars

SpecAugment == InitAugment /\ [][Next]_vars

(***************************************************************************)
(* Properties                                                              *)
(***************************************************************************)
Valid(entry) == entry.class > 0

ZeroLike(entry) == [k \in DOMAIN entry |-> 0]

PastedBoxes0 == transformation.OBJECT_BOUNDING_BOXES[0]

LoadedBoxes0 ==
    LoadedObjects(object_bounding_boxes, num_paste_bounding_boxes, shuffle_index)[0]

(* C1: after get_random_transformation every box selected for pasting has *)
(* zero 3D IoU, in frame 0, with every box of the scene and with every    *)
(* other selected box.                                                    *)
NoOverlapWithPastedBoxes ==
    pc # "start" =>
        \A i \in 1 .. Len(PastedBoxes0) :
            /\ \A j \in 1 .. Len(bounding_boxes[0]) :
                  Iou3d(PastedBoxes0[i], bounding_boxes[0][j])[1] = 0
            /\ \A k \in 1 .. Len(PastedBoxes0) :
                  k # i => Iou3d(PastedBoxes0[i], PastedBoxes0[k])[1] = 0

(* A labelled box is selected next to a labelled scene box while another *)
(* loaded candidate was turned down.                                     *)
NoOverlapWitness ==
    /\ pc = "transformed"
    /\ \E i \in 1 .. Len(PastedBoxes0) : Valid(PastedBoxes0[i])
    /\ \E j \in 1 .. Len(bounding_boxes[0]) : Valid(bounding_boxes[0][j])
    /\ Len(PastedBoxes0) < Min(num_paste_bounding_boxes, Len(LoadedBoxes0))

(* C2: the outputs have the shape of the inputs: the same frames, the same *)
(* number of point and box slots, the same features, whether the pasted    *)
(* and existing entries are fewer or more than the slots.                  *)
SameShape(out, in) ==
    /\ DOMAIN out = DOMAIN in
    /\ \A f \in DOMAIN in :
          /\ Len(out[f]) = Len(in[f])
          /\ \A i \in 1 .. Len(in[f]) : DOMAIN out[f][i] = DOMAIN in[f][i]

OutputShapeIsInputShape ==
    pc = "done" =>
        /\ SameShape(out_point_clouds, point_clouds)
        /\ SameShape(out_bounding_boxes, bounding_boxes)

(* More points than point slots in one frame, fewer boxes than box slots. *)
OutputShapeWitness ==
    /\ pc = "done"
    /\ \E f \in Frames :
          /\ Len(PastePointClouds(f)) >= 1
          /\ Len(PastePointClouds(f)) + Len(ExistingPointClouds(f)) > NumPoints
          /\ Len(PasteBoundingBoxes(f)) >= 1
          /\ Len(PasteBoundingBoxes(f)) + Len(ExistingBoundingBoxes(f)) < NumBoxes

PassingCandidates ==
    LET loaded == LoadedBoxes0
    IN  { i \in 1 .. Len(loaded) :
            /\ \A j \in 1 .. Len(bounding_boxes[0]) :
                  Intersection3d(loaded[i], bounding_boxes[0][j]) = 0
            /\ \A k \in 1 .. (i - 1) : Intersection3d(loaded[i], loaded[k]) = 0 }

AtMostMaxPasted ==
    pc # "start" =>
        \A f \in Frames :
            /\ Len(transformation.OBJECT_BOUNDING_BOXES[f]) <= max_paste_bounding_boxes
            /\ Len(transformation.OBJECT_POINT_CLOUDS[f]) <= max_paste_bounding_boxes
            /\ Len(PasteBoundingBoxes(f)) <= max_paste_bounding_boxes

(* max_paste_bounding_boxes boxes are returned though more candidates pass. *)
AtMostMaxWitness ==
    /\ pc = "done"
    /\ max_paste_bounding_boxes >= 1
    /\ Len(PastedBoxes0) = max_paste_bounding_boxes
    /\ Cardinality(PassingCandidates) > max_paste_bounding_boxes

(* The entries of an output frame behind the pasted points that carry a *)
(* class lie in no pasted box of the frame.                             *)
KeptPointsOutsidePastedBoxes(f) ==
    \A i \in (Len(PastePointClouds(f)) + 1) .. Len(out_point_clouds[f]) :
        Valid(out_point_clouds[f][i]) =>
            \A j \in 1 .. Len(PasteBoundingBoxes(f)) :
                ~IsWithinBox3d(out_point_clouds[f][i], PasteBoundingBoxes(f)[j])

(* The valid points of the pasted objects of frame f, object by object. *)
PastedPoints(f) ==
    Flatten([i \in 1 .. Len(transformation.OBJECT_POINT_CLOUDS[f]) |->
                SelectSeq(transformation.OBJECT_POINT_CLOUDS[f][i], Valid)])

(* C5, as stated: no kept input point lies in a pasted box of its frame, *)
(* and every valid point of the pasted objects is in the frame.          *)
BackgroundReplacedByObjects ==
    pc = "done" =>
        \A f \in Frames :
            /\ KeptPointsOutsidePastedBoxes(f)
            /\ \A k \in 1 .. Len(PastedPoints(f)) :
                  \E i \in 1 .. Len(out_point_clouds[f]) :
                      out_point_clouds[f][i] = PastedPoints(f)[k]

(* C5, amended: no kept input point lies in a pasted box of its frame, and *)
(* the frame starts with the valid points of the pasted objects: all of    *)
(* them when they fit in the point slots, else as many as there are slots. *)
BackgroundReplacedWithinSlots ==
    pc = "done" =>
        \A f \in Frames :
            /\ KeptPointsOutsidePastedBoxes(f)
            /\ \A k \in 1 .. Min(Len(PastedPoints(f)), Len(out_point_clouds[f])) :
                  out_point_clouds[f][k] = PastedPoints(f)[k]

(* In one frame a labelled background point lies in a pasted box, a pasted *)
(* point is there and a background point is kept.                          *)
BackgroundReplacedWitness ==
    /\ pc = "done"
    /\ \E f \in Frames :
          /\ \E i \in 1 .. Len(point_clouds[f]) :
                /\ Valid(point_clouds[f][i])
                /\ \E j \in 1 .. Len(PasteBoundingBoxes(f)) :
                      IsWithinBox3d(point_clouds[f][i], PasteBoundingBoxes(f)[j])
          /\ Len(PastedPoints(f)) >= 1
          /\ Len(PastedPoints(f)) < NumPoints
          /\ Valid(out_point_clouds[f][Len(PastedPoints(f)) + 1])

KeptPoint(f, p) ==
    /\ Valid(p)
    /\ \A j \in 1 .. Len(transformation.OBJECT_BOUNDING_BOXES[f]) :
          ~IsWithinBox3d(p, transformation.OBJECT_BOUNDING_BOXES[f][j])

(* The valid kept input points of frame f, in input order. *)
KeptPoints(f) ==
    LET Kept(p) == KeptPoint(f, p) IN SelectSeq(point_clouds[f], Kept)

PointLayout(f) == PastedPoints(f) \o KeptPoints(f)

BoxLayout(f) ==
    SelectSeq(transformation.OBJECT_BOUNDING_BOXES[f], Valid)
        \o SelectSeq(bounding_boxes[f], Valid)

Padding(n, zero) == [i \in 1 .. n |-> zero]

(* C6, as stated: every output frame is the valid pasted entries, then the *)
(* valid kept input entries, then all-zero padding up to the slot count.   *)
FrameLayout ==
    pc = "done" =>
        \A f \in Frames :
            /\ Len(PointLayout(f)) <= Len(point_clouds[f])
            /\ out_point_clouds[f]
                  = PointLayout(f) \o Padding(Len(point_clouds[f]) - Len(PointLayout(f)), ZeroPoint)
            /\ Len(BoxLayout(f)) <= Len(bounding_boxes[f])
            /\ out_bounding_boxes[f]
                  = BoxLayout(f) \o Padding(Len(bounding_boxes[f]) - Len(BoxLayout(f)), ZeroBox)

(* Every entry of the frame is valid or all-zero padding, and only padding *)
(* follows padding.                                                        *)
ValidThenPadding(frame) ==
    /\ \A i \in 1 .. Len(frame) : Valid(frame[i]) \/ frame[i] = ZeroLike(frame[i])
    /\ \A i, k \in 1 .. Len(frame) : (i < k /\ ~Valid(frame[i])) => ~Valid(frame[k])

(* C6, amended: every output frame is the first slot-count entries of: the *)
(* valid pasted entries, then the valid kept input entries, then all-zero  *)
(* padding; no valid entry follows padding and no input entry of class     *)
(* <= 0 is in the output.                                                  *)
FrameLayoutWithinSlots ==
    pc = "done" =>
        \A f \in Frames :
            /\ out_point_clouds[f]
                  = SubSeq(PointLayout(f) \o Padding(Len(point_clouds[f]), ZeroPoint), 1, Len(point_clouds[f]))
            /\ out_bounding_boxes[f]
                  = SubSeq(BoxLayout(f) \o Padding(Len(bounding_boxes[f]), ZeroBox), 1, Len(bounding_boxes[f]))
            /\ ValidThenPadding(out_point_clouds[f])
            /\ ValidThenPadding(out_bounding_boxes[f])

(* One frame holds a pasted and a kept point while an unlabelled input   *)
(* point was dropped, and holds a pasted box followed by padding.        *)
FrameLayoutWitness ==
    /\ pc = "done"
    /\ \E f \in Frames :
          /\ Len(PastedPoints(f)) >= 1
          /\ Len(KeptPoints(f)) >= 1
          /\ Len(PointLayout(f)) <= NumPoints
          /\ \E i \in 1 .. Len(point_clouds[f]) :
                ~Valid(point_clouds[f][i]) /\ point_clouds[f][i] # ZeroPoint
          /\ Len(BoxLayout(f)) >= 1
          /\ Len(BoxLayout(f)) < NumBoxes
          /\ Valid(out_bounding_boxes[f][1])
          /\ out_bounding_boxes[f][NumBoxes] = ZeroBox

====
